---- MODULE Spec2Model ----
(***************************************************************************)
(* membuf: the prebuffering in-memory stream cache (stream filter).        *)
(*                                                                         *)
(* Two threads share one stream_sys_t: the reader thread, which calls      *)
(* Read / Peek / Control one call at a time, and PrebufferThread, which    *)
(* pulls bytes from the source into the block array.  Every step below is  *)
(* one stretch of code between two points at which the other thread can    *)
(* observe or change shared state: a mutex-protected section that acquires *)
(* no further mutex is one step, an unlocked read of a shared flag is a    *)
(* step of its own, and a section that acquires a second mutex that can be *)
(* held across a blocking call (source_lock) is split at that acquisition. *)
(* The per-block range_lock and the two condition-variable mutexes are     *)
(* only ever held for a non-blocking stretch and are not variables.        *)
(* b_error is written by PrebufferThread alone and b_close by nobody, so   *)
(* PrebufferThread's tests of them are local and belong to the step before.*)
(* Locals are reset when they go out of scope.                             *)
(* b_can_fastseek is written at Open and read by STREAM_CAN_FASTSEEK alone, *)
(* which answers like STREAM_CAN_SEEK (lines 881-886): the field is not a   *)
(* variable and the query is not an action.                                *)
(*                                                                         *)
(* Sizes are scaled down: a block of 2 bytes, reads of 1 byte, a short-seek *)
(* window of 2 bytes, with BYTES_PER_READ < SHORT_SEEK_RANGE <=            *)
(* BUFFER_BLOCK_SIZE as in the source.                                     *)
(***************************************************************************)
EXTENDS Integers, Sequences, FiniteSets, TLC

\* ------------------------------------------------------------------ sizes
BUFFER_BLOCK_SIZE == 2
BYTES_PER_READ == 1
SHORT_SEEK_RANGE == 2

\* bounds of the model: the source's size, the largest Read/Peek request
StreamSize == 3
MaxRead == 2

VLC_SUCCESS == 0
VLC_EGENERIC == -1

\* --------------------------------------------------------------- the source
\* The upstream source: byte p of the stream.  Every position carries its own
\* value and none is 0, the value a freshly allocated block is filled with.
SourceByte(p) == p + 1
\* what a read outside an allocated buffer yields
Garbage == -1

SourceRange(a, n) == [k \in 1..n |-> SourceByte(a + k - 1)]

Min(a, b) == IF a < b THEN a ELSE b

\* ------------------------------------------------------------------ state
VARIABLES
    \* stream_sys_t
    b_can_seek, b_error, b_close,
    block_array, i_stream_offset, i_prebuffer_offset, b_buffered_eos,
    i_temp_peek_capacity,
    \* mutexes that are held across steps: the owner, or "none"
    prebuffer_offset_lock, source_lock,
    \* threads blocked in vlc_cond_wait on wait_fill / wait_rewind
    wait_fill, wait_rewind,
    \* p_stream->p_source: its position (stream_Tell)
    src_pos,
    \* a failed assert(): "ok" until one fails, then "aborted" (the build
    \* keeps assertions: the process is gone) or "ndebug" (it compiles
    \* them out and goes on)
    assert_outcome,
    \* PrebufferThread: position and locals
    w_pc, w_prebuffer_offset, w_block_index, w_block_offset, w_read_ret,
    \* the reader thread: position, the call in progress, its arguments
    r_pc, r_op, r_n, r_pos, r_start,
    \* safe_WaitFillData's i_read and i_prebuffer_offset, Control's rewind pos
    r_read, r_snap, r_rewind,
    \* unsafe_fetchData's locals
    r_index, r_offset, r_count, r_left,
    \* the bytes delivered and the value returned
    r_data, r_ret,
    \* whether the call before this one was a SET_POSITION that succeeded
    r_seeked,
    \* what the call before this one returned if it was a Peek and the caller
    \* keeps it to compare: <<n, count, bytes>>, else <<>>
    r_peeked,
    \* the value a Control query stores through its pointer argument
    r_out,
    \* what a caller that keeps track knows of its SET_POSITION calls: "fresh"
    \* (none made yet), "whole" (exactly one, the call in progress or the one
    \* just before it, made with the whole stream buffered), else "used"
    r_hist,
    \* Open: its position, the value it returned, and what it found: whether
    \* the source is itself a filter on a source, membuf-enable, stream_Size
    \* (signed), the answer to STREAM_CAN_SEEK, whether malloc and vlc_clone fail
    o_pc, o_ret, o_source,
    \* stream_sys_t.i_stream_size (unsigned); p_stream->p_sys: "NULL", "live"
    \* or "freed"; whether pf_read / pf_peek / pf_control are installed;
    \* whether PrebufferThread was created
    i_stream_size, p_sys, pf_installed, prebuffer_thread,
    \* Close: its position
    c_pc

\* what only Open and Close write
module_vars == <<b_can_seek, i_stream_size, p_sys, pf_installed, prebuffer_thread,
                 o_pc, o_ret, o_source, c_pc>>

sys_vars == <<module_vars, b_error, b_close, block_array, i_stream_offset,
              i_prebuffer_offset, b_buffered_eos, i_temp_peek_capacity,
              prebuffer_offset_lock, source_lock, wait_fill, wait_rewind,
              src_pos, assert_outcome>>
w_locals == <<w_prebuffer_offset, w_block_index, w_block_offset, w_read_ret>>
w_vars == <<w_pc, w_locals>>
r_args == <<r_op, r_n, r_pos, r_start, r_seeked, r_peeked, r_out, r_hist>>
r_wait == <<r_read, r_snap, r_rewind>>
r_fetch == <<r_index, r_offset, r_count, r_left>>
r_result == <<r_data, r_ret>>
r_locals == <<r_args, r_wait, r_fetch, r_result>>
r_vars == <<r_pc, r_locals>>
vars == <<sys_vars, w_vars, r_vars>>

\* ----------------------------------------------------------------- blocks
ZeroBuffer == [o \in 0..(BUFFER_BLOCK_SIZE - 1) |-> 0]

\* a NULL element of block_array
NullBlock == [alloc |-> FALSE, i_block_size |-> 0, i_data_begin |-> 0,
              i_data_end |-> 0, p_buffer |-> ZeroBuffer]

\* buffer_block_Alloc: zero-filled buffer, range (0, 0), full block size
buffer_block_Alloc == [alloc |-> TRUE, i_block_size |-> BUFFER_BLOCK_SIZE,
                       i_data_begin |-> 0, i_data_end |-> 0, p_buffer |-> ZeroBuffer]

\* vlc_array_item_at_index
ItemAt(arr, i) == arr[i + 1]

\* vlc_array_append( NULL ) while index >= count
GrowArray(arr, index) ==
    IF index < Len(arr) THEN arr
    ELSE arr \o [k \in 1..(index + 1 - Len(arr)) |-> NullBlock]

\* every block given the full size
BlockSizeFor_Whole(index) == BUFFER_BLOCK_SIZE

\* the block size PrebufferThread gives a new block
BlockSizeFor(index) ==
    IF StreamSize = 0 THEN 0
    ELSE IF index = (StreamSize - 1) \div BUFFER_BLOCK_SIZE
         THEN ((StreamSize - 1) % BUFFER_BLOCK_SIZE) + 1
         ELSE BUFFER_BLOCK_SIZE

\* PrebufferThread "prepare block": reconcile the range with the frontier
PrepareBlock(b, offset) ==
    IF offset < b.i_data_begin
    THEN [b EXCEPT !.i_data_begin = offset, !.i_data_end = offset]
    ELSE IF offset >= b.i_data_end
         THEN [b EXCEPT !.i_data_end = offset]
         ELSE [b EXCEPT !.i_data_end = offset]

RECURSIVE RewindWalk(_, _, _, _)
RewindWalk(arr, index, offset, rewind_pos) ==
    IF index >= Len(arr) THEN rewind_pos
    ELSE LET b == ItemAt(arr, index) IN
         IF ~b.alloc THEN rewind_pos
         ELSE IF offset < b.i_data_begin THEN rewind_pos
         ELSE IF offset >= b.i_data_end THEN rewind_pos
         ELSE LET pos == index * BUFFER_BLOCK_SIZE + b.i_data_end IN
              IF b.i_data_end < BUFFER_BLOCK_SIZE THEN pos
              ELSE RewindWalk(arr, index + 1, 0, pos)

unsafe_FindRewindBufferedPosition(arr, i_start_pos) ==
    IF i_start_pos \div BUFFER_BLOCK_SIZE >= Len(arr) THEN i_start_pos
    ELSE RewindWalk(arr, i_start_pos \div BUFFER_BLOCK_SIZE,
                    i_start_pos % BUFFER_BLOCK_SIZE, i_start_pos)

\* ------------------------------------------------------- shared mechanics
Running == assert_outcome # "aborted" /\ p_sys = "live"

\* everything but assert_outcome
not_assert == <<module_vars, b_error, b_close, block_array, i_stream_offset,
                i_prebuffer_offset, b_buffered_eos, i_temp_peek_capacity,
                prebuffer_offset_lock, source_lock, wait_fill, wait_rewind,
                src_pos, w_vars, r_vars>>

\* assert( ok ) fails in a build that keeps assertions: the process aborts
AssertFails(ok) ==
    /\ ~ok
    /\ assert_outcome = "ok"
    /\ assert_outcome' = "aborted"
    /\ UNCHANGED not_assert

\* assert( ok ) holds, or the build compiles assertions out: the code goes on
AssertPasses(ok) ==
    assert_outcome' = IF ok THEN assert_outcome ELSE "ndebug"

\* the code uses a block pointer: a NULL pointer ends the process
Crash(blk) ==
    /\ ~blk.alloc
    /\ assert_outcome' = "aborted"
    /\ UNCHANGED not_assert

\* vlc_cond_signal( wait_fill ): wakes the reader if it waits
SignalFill ==
    IF "reader" \in wait_fill
    THEN /\ wait_fill' = wait_fill \ {"reader"}
         /\ r_pc' = "wf_woken"
    ELSE UNCHANGED <<wait_fill, r_pc>>

\* vlc_cond_signal( wait_rewind ): wakes PrebufferThread if it waits
SignalRewind ==
    IF "worker" \in wait_rewind
    THEN /\ wait_rewind' = wait_rewind \ {"worker"}
         /\ w_pc' = "w_start"
    ELSE UNCHANGED <<wait_rewind, w_pc>>

\* ------------------------------------------------------------------ Init
\* sys_Alloc's memset (line 294) and the locals of threads not yet running
Zeroed ==
    /\ b_error = FALSE
    /\ b_close = FALSE
    /\ block_array = <<>>
    /\ i_stream_offset = 0
    /\ i_prebuffer_offset = 0
    /\ b_buffered_eos = FALSE
    /\ i_temp_peek_capacity = 0
    /\ prebuffer_offset_lock = "none"
    /\ source_lock = "none"
    /\ wait_fill = {}
    /\ wait_rewind = {}
    /\ src_pos = 0
    /\ assert_outcome = "ok"
    /\ w_prebuffer_offset = 0
    /\ w_block_index = 0
    /\ w_block_offset = 0
    /\ w_read_ret = 0
    /\ r_pc = "idle"
    /\ r_op = "none"
    /\ r_n = 0
    /\ r_pos = 0
    /\ r_start = 0
    /\ r_read = 0
    /\ r_snap = 0
    /\ r_rewind = 0
    /\ r_index = 0
    /\ r_offset = 0
    /\ r_count = 0
    /\ r_left = 0
    /\ r_data = <<>>
    /\ r_ret = 0
    /\ r_seeked = FALSE
    /\ r_peeked = <<>>
    /\ r_out = <<>>
    /\ r_hist = "fresh"

\* unsigned 64-bit arithmetic, scaled
Uint64Modulus == 8

\* the conversion of an int64_t to uint64_t (line 179)
ToUint64(i) == i % Uint64Modulus

\* what stream_Size may return
SourceSizes == (0 - 2)..StreamSize

OpenInputs ==
    [layered : BOOLEAN, enabled : BOOLEAN, size : SourceSizes, can_seek : BOOLEAN,
     nomem : BOOLEAN, noclone : BOOLEAN]

\* the state Open leaves: empty block array, all offsets 0, thread started
Init ==
    /\ Zeroed
    /\ b_can_seek \in BOOLEAN
    /\ w_pc = "w_start"
    /\ o_pc = "o_ret"
    /\ o_ret = VLC_SUCCESS
    /\ o_source = [layered |-> FALSE, enabled |-> TRUE, size |-> StreamSize,
                   can_seek |-> b_can_seek, nomem |-> FALSE, noclone |-> FALSE]
    /\ i_stream_size = StreamSize
    /\ p_sys = "live"
    /\ pf_installed = TRUE
    /\ prebuffer_thread = TRUE
    /\ c_pc = "c_idle"

\* ------------------------------------------------------------------- Open
\* the state Open is called in
InitOpen ==
    /\ Zeroed
    /\ b_can_seek = FALSE
    /\ w_pc = "w_none"
    /\ o_pc = "o_call"
    /\ o_ret = 0
    /\ o_source \in OpenInputs
    /\ i_stream_size = 0
    /\ p_sys = "NULL"
    /\ pf_installed = FALSE
    /\ prebuffer_thread = FALSE
    /\ c_pc = "c_idle"

\* line 180: i_stream_size <= 0, on the unsigned field
SizeRejected(size) == size <= 0

\* what Open leaves untouched
open_frame == <<b_error, b_close, block_array, i_stream_offset, i_prebuffer_offset,
                b_buffered_eos, i_temp_peek_capacity, prebuffer_offset_lock, source_lock,
                wait_fill, wait_rewind, src_pos, assert_outcome, w_locals, r_vars,
                o_source, c_pc>>

\* lines 160-176, 201-204: Open gives up before it has a stream_sys_t
Open_NoSys ==
    /\ o_pc = "o_call"
    /\ o_source.layered \/ ~o_source.enabled \/ o_source.nomem
    /\ o_pc' = "o_ret"
    /\ o_ret' = VLC_EGENERIC
    /\ UNCHANGED <<open_frame, b_can_seek, i_stream_size, p_sys, pf_installed,
                   prebuffer_thread, w_pc>>

\* lines 179-183, 201-204: the size is rejected, the stream_sys_t is freed
\* before p_stream points to it
Open_NoSize ==
    /\ o_pc = "o_call"
    /\ ~(o_source.layered \/ ~o_source.enabled \/ o_source.nomem)
    /\ SizeRejected(ToUint64(o_source.size))
    /\ o_pc' = "o_ret"
    /\ o_ret' = VLC_EGENERIC
    /\ UNCHANGED <<open_frame, b_can_seek, i_stream_size, p_sys, pf_installed,
                   prebuffer_thread, w_pc>>

\* lines 179-194: the stream_sys_t is filled and installed
Installed ==
    /\ ~(o_source.layered \/ ~o_source.enabled \/ o_source.nomem)
    /\ ~SizeRejected(ToUint64(o_source.size))
    /\ i_stream_size' = ToUint64(o_source.size)
    /\ b_can_seek' = o_source.can_seek
    /\ pf_installed' = TRUE

\* lines 196-197, 201-204: vlc_clone fails; sys_Free frees what p_stream
\* still points to
Open_NoThread ==
    /\ o_pc = "o_call"
    /\ Installed
    /\ o_source.noclone
    /\ p_sys' = "freed"
    /\ o_pc' = "o_ret"
    /\ o_ret' = VLC_EGENERIC
    /\ UNCHANGED <<open_frame, prebuffer_thread, w_pc>>

\* lines 196-200: the thread runs, Open succeeds
Open_Loaded ==
    /\ o_pc = "o_call"
    /\ Installed
    /\ ~o_source.noclone
    /\ p_sys' = "live"
    /\ prebuffer_thread' = TRUE
    /\ w_pc' = "w_start"
    /\ o_pc' = "o_ret"
    /\ o_ret' = VLC_SUCCESS
    /\ UNCHANGED open_frame

Open == Open_NoSys \/ Open_NoSize \/ Open_NoThread \/ Open_Loaded

\* ======================================================== PrebufferThread
\* what PrebufferThread never writes
w_frame == <<module_vars, b_close, i_stream_offset, i_temp_peek_capacity,
             prebuffer_offset_lock, wait_rewind, r_locals>>

\* a turn of while( true ) ends: the locals of its body go out of scope
NewTurn ==
    /\ w_pc' = "w_start"
    /\ w_block_index' = 0
    /\ w_block_offset' = 0
    /\ w_read_ret' = 0

\* goto EXIT_THREAD
ExitThread ==
    /\ w_pc' = "w_exit"
    /\ w_block_index' = 0
    /\ w_block_offset' = 0
    /\ w_read_ret' = 0

\* lines 408-414 and 435: safe_GetPrebufferOffset, the EOS test, the flags
PrebufferThread_GetOffset ==
    /\ Running /\ w_pc = "w_start"
    /\ prebuffer_offset_lock = "none"
    /\ w_prebuffer_offset' = i_prebuffer_offset
    /\ w_pc' = IF i_prebuffer_offset >= StreamSize
               THEN IF b_error \/ b_close THEN "w_exit" ELSE "w_set_eos"
               ELSE "w_prepare"
    /\ UNCHANGED <<sys_vars, r_vars, w_block_index, w_block_offset, w_read_ret>>

\* lines 418-421: b_buffered_eos = true under the offset lock
PrebufferThread_SetEos ==
    /\ Running /\ w_pc = "w_set_eos"
    /\ prebuffer_offset_lock = "none"
    /\ b_buffered_eos' = TRUE
    /\ w_pc' = "w_eos_signal"
    /\ UNCHANGED <<w_frame, b_error, block_array, i_prebuffer_offset, source_lock,
                   wait_fill, src_pos, assert_outcome, r_pc, w_locals>>

\* lines 423-426: signal wait_fill
PrebufferThread_EosSignal ==
    /\ Running /\ w_pc = "w_eos_signal"
    /\ SignalFill
    /\ w_pc' = "w_rewind_wait"
    /\ UNCHANGED <<w_frame, b_error, block_array, i_prebuffer_offset, b_buffered_eos,
                   source_lock, src_pos, assert_outcome, w_locals>>

\* lines 429-431: vlc_cond_wait( wait_rewind )
PrebufferThread_WaitRewind ==
    /\ Running /\ w_pc = "w_rewind_wait"
    /\ wait_rewind' = wait_rewind \cup {"worker"}
    /\ w_pc' = "w_parked"
    /\ UNCHANGED <<module_vars, b_close, i_stream_offset, i_temp_peek_capacity,
                   prebuffer_offset_lock, b_error, block_array, i_prebuffer_offset,
                   b_buffered_eos, source_lock, wait_fill, src_pos, assert_outcome,
                   r_vars, w_locals>>

\* lines 442-536: grow the array, allocate the block, reconcile its range
PrebufferThread_PrepareBlock ==
    /\ Running /\ w_pc = "w_prepare"
    /\ prebuffer_offset_lock = "none"
    /\ LET index == w_prebuffer_offset \div BUFFER_BLOCK_SIZE
           offset == w_prebuffer_offset % BUFFER_BLOCK_SIZE
           grown == GrowArray(block_array, index)
           old == ItemAt(grown, index)
           blk == IF old.alloc THEN old
                  ELSE [buffer_block_Alloc EXCEPT !.i_block_size = BlockSizeFor(index)]
       IN /\ w_block_index' = index
          /\ w_block_offset' = offset
          /\ block_array' = [grown EXCEPT ![index + 1] = PrepareBlock(blk, offset)]
    /\ w_pc' = "w_fill"
    /\ UNCHANGED <<w_frame, b_error, i_prebuffer_offset, b_buffered_eos, source_lock,
                   wait_fill, src_pos, assert_outcome, r_pc, w_prebuffer_offset, w_read_ret>>

\* lines 461, 485-489, 534: buffer_block_Alloc() returns NULL
PrebufferThread_AllocFail ==
    /\ Running /\ w_pc = "w_prepare"
    /\ prebuffer_offset_lock = "none"
    /\ LET index == w_prebuffer_offset \div BUFFER_BLOCK_SIZE
           grown == GrowArray(block_array, index)
       IN /\ ~ItemAt(grown, index).alloc
          /\ block_array' = grown
    /\ b_error' = TRUE
    /\ ExitThread
    /\ UNCHANGED <<w_frame, i_prebuffer_offset, b_buffered_eos, source_lock,
                   wait_fill, src_pos, assert_outcome, r_pc, w_prebuffer_offset>>

\* lines 540-555, 622-632: the fill loop's test, then: has the frontier
\* moved since the block was chosen
PrebufferThread_Fill ==
    /\ Running /\ w_pc = "w_fill"
    /\ prebuffer_offset_lock = "none"
    /\ IF w_block_offset < ItemAt(block_array, w_block_index).i_block_size
       THEN IF b_error \/ b_close THEN ExitThread
            ELSE IF w_prebuffer_offset = i_prebuffer_offset
                 THEN /\ w_pc' = "w_tell"
                      /\ UNCHANGED <<w_block_index, w_block_offset, w_read_ret>>
                 ELSE NewTurn
       ELSE NewTurn
    /\ UNCHANGED <<sys_vars, r_vars, w_prebuffer_offset>>

\* a thread that reads wherever the source is
TellMatches_Any(prebuffer_offset, i_source_offset) == TRUE

\* line 566
TellMatches(prebuffer_offset, i_source_offset) == prebuffer_offset = i_source_offset

\* lines 562-566, 572-580: take source_lock, stream_Tell
PrebufferThread_Tell ==
    /\ Running /\ w_pc = "w_tell"
    /\ source_lock = "none"
    /\ IF TellMatches(w_prebuffer_offset, src_pos)
       THEN /\ source_lock' = "worker"
            /\ w_pc' = "w_read"
            /\ UNCHANGED <<w_block_index, w_block_offset, w_read_ret>>
       ELSE /\ UNCHANGED source_lock
            /\ NewTurn
    /\ UNCHANGED <<w_frame, b_error, block_array, i_prebuffer_offset, b_buffered_eos,
                   wait_fill, src_pos, assert_outcome, r_pc, w_prebuffer_offset>>

\* lines 545-548
StepSize(blk, offset) == Min(BYTES_PER_READ, blk.i_block_size - offset)

\* what stream_Read stores: ret bytes of the source at the block's offset
StoreRead(blk, offset, pos, ret) ==
    [blk EXCEPT !.p_buffer = [o \in 0..(BUFFER_BLOCK_SIZE - 1) |->
        IF o >= offset /\ o < offset + ret THEN SourceByte(pos + o - offset)
        ELSE blk.p_buffer[o]]]

\* source_lock kept after the read
SourceUnlock_Kept == "worker"

\* line 580: vlc_cleanup_run() releases source_lock
SourceUnlock == "none"

\* lines 568-570, 580: stream_Read returns 1..i_step_read bytes
PrebufferThread_Read ==
    /\ Running /\ w_pc = "w_read"
    /\ \E ret \in 1..Min(StepSize(ItemAt(block_array, w_block_index), w_block_offset),
                         StreamSize - src_pos) :
          /\ block_array' = [block_array EXCEPT ![w_block_index + 1] =
                                StoreRead(@, w_block_offset, src_pos, ret)]
          /\ src_pos' = src_pos + ret
          /\ w_read_ret' = ret
    /\ source_lock' = SourceUnlock
    /\ w_pc' = "w_commit"
    /\ UNCHANGED <<w_frame, b_error, i_prebuffer_offset, b_buffered_eos,
                   wait_fill, assert_outcome, r_pc,
                   w_prebuffer_offset, w_block_index, w_block_offset>>

\* lines 568-570, 633: stream_Read returns 0 or an error
PrebufferThread_ReadFail ==
    /\ Running /\ w_pc = "w_read"
    /\ w_read_ret' \in {-1, 0}
    /\ source_lock' = "none"
    /\ w_pc' = "w_set_error"
    /\ UNCHANGED <<w_frame, b_error, block_array, i_prebuffer_offset, b_buffered_eos,
                   wait_fill, src_pos, assert_outcome, r_pc,
                   w_prebuffer_offset, w_block_index, w_block_offset>>

\* lines 633-637
PrebufferThread_SetError ==
    /\ Running /\ w_pc = "w_set_error"
    /\ b_error' = TRUE
    /\ ExitThread
    /\ UNCHANGED <<w_frame, block_array, i_prebuffer_offset, b_buffered_eos, source_lock,
                   wait_fill, src_pos, assert_outcome, r_pc, w_prebuffer_offset>>

\* the frontier written without the test of line 608
CommitOffset_Unchecked(latest, mine, ret) == mine + ret

\* lines 607-617: the frontier after a read of ret bytes made from `mine`
CommitOffset(latest, mine, ret) == IF mine = latest THEN mine + ret ELSE latest

\* lines 601-602: the block's end after a read of ret bytes
CommitEnd(blk, ret) == [blk EXCEPT !.i_data_end = @ + ret]

\* lines 592-620: move the block cursor, then the frontier if it is unchanged
PrebufferThread_Commit ==
    /\ Running /\ w_pc = "w_commit"
    /\ prebuffer_offset_lock = "none"
    /\ LET blk == CommitEnd(ItemAt(block_array, w_block_index), w_read_ret)
           fits == blk.i_data_end <= blk.i_block_size
       IN \/ AssertFails(fits)
          \/ /\ AssertPasses(fits)
             /\ block_array' = [block_array EXCEPT ![w_block_index + 1] = blk]
             /\ i_prebuffer_offset' =
                    CommitOffset(i_prebuffer_offset, w_prebuffer_offset, w_read_ret)
             /\ IF w_prebuffer_offset = i_prebuffer_offset
                THEN /\ w_prebuffer_offset' = w_prebuffer_offset + w_read_ret
                     /\ w_block_offset' = w_block_offset + w_read_ret
                     /\ w_read_ret' = 0
                     /\ w_pc' = "w_signal"
                     /\ UNCHANGED w_block_index
                ELSE /\ UNCHANGED w_prebuffer_offset
                     /\ NewTurn
             /\ UNCHANGED <<w_frame, b_error, b_buffered_eos, source_lock,
                            wait_fill, src_pos, r_pc>>

\* lines 640-645: wake a blocked Read/Peek
PrebufferThread_FillSignal ==
    /\ Running /\ w_pc = "w_signal"
    /\ SignalFill
    /\ w_pc' = "w_fill"
    /\ UNCHANGED <<w_frame, b_error, block_array, i_prebuffer_offset, b_buffered_eos,
                   source_lock, src_pos, assert_outcome, w_locals>>

\* lines 649-663: EXIT_THREAD
PrebufferThread_Exit ==
    /\ Running /\ w_pc = "w_exit"
    /\ IF b_error THEN SignalFill ELSE UNCHANGED <<wait_fill, r_pc>>
    /\ w_pc' = "w_done"
    /\ UNCHANGED <<w_frame, b_error, block_array, i_prebuffer_offset, b_buffered_eos,
                   source_lock, src_pos, assert_outcome, w_locals>>

PrebufferThread ==
    \/ PrebufferThread_GetOffset
    \/ PrebufferThread_SetEos
    \/ PrebufferThread_EosSignal
    \/ PrebufferThread_WaitRewind
    \/ PrebufferThread_PrepareBlock
    \/ PrebufferThread_AllocFail
    \/ PrebufferThread_Fill
    \/ PrebufferThread_Tell
    \/ PrebufferThread_Read
    \/ PrebufferThread_ReadFail
    \/ PrebufferThread_SetError
    \/ PrebufferThread_Commit
    \/ PrebufferThread_FillSignal
    \/ PrebufferThread_Exit

\* ============================================================ the reader
\* what the reader never writes (wait_rewind and w_pc: only by signalling)
r_frame == <<module_vars, b_error, b_close, block_array, source_lock, w_locals>>

\* a call returns value v, having delivered the bytes in data; the locals
\* of the functions it went through are gone
Return(v, data) ==
    /\ r_ret' = v
    /\ r_data' = data
    /\ r_pc' = "ret"
    /\ r_read' = 0
    /\ r_snap' = 0
    /\ r_rewind' = 0
    /\ r_index' = 0
    /\ r_offset' = 0
    /\ r_count' = 0
    /\ r_left' = 0

\* ------------------------------------------------------ safe_WaitFillData
\* a caller that ends the call only when v < 0
WaitReturn_ZeroGoesOn(v) ==
    IF v < 0 THEN Return(v, <<>>)
    ELSE /\ r_read' = v
         /\ r_snap' = 0
         /\ r_pc' = CASE r_op = "Read" -> "rd_ready"
                      [] r_op = "Peek" -> "pk_ready"
                      [] OTHER -> "sk_lock"
         /\ UNCHANGED <<r_rewind, r_fetch, r_result>>

\* safe_WaitFillData returns v to its caller, which ends the call when
\* v <= 0 (lines 800-805, 833-838, 920-925)
WaitReturn(v) ==
    IF v <= 0 THEN Return(v, <<>>)
    ELSE /\ r_read' = v
         /\ r_snap' = 0
         /\ r_pc' = CASE r_op = "Read" -> "rd_ready"
                      [] r_op = "Peek" -> "pk_ready"
                      [] OTHER -> "sk_lock"
         /\ UNCHANGED <<r_rewind, r_fetch, r_result>>

\* lines 727-738: the clamp made when b_buffered_eos is set
ClampAtEos(i_read, stream_offset, prebuffer_offset) ==
    IF stream_offset >= prebuffer_offset THEN 0
    ELSE Min(i_read, prebuffer_offset - stream_offset)

\* line 723: the unlocked test of b_buffered_eos; line 743 when it is clear
safe_WaitFillData_Eos1 ==
    /\ Running /\ r_pc = "wf_eos1"
    /\ IF b_buffered_eos
       THEN /\ r_pc' = "wf_eos2"
            /\ UNCHANGED <<r_wait, r_fetch, r_result>>
       ELSE IF r_read = 0 THEN WaitReturn(0)
            ELSE /\ r_pc' = "wf_get"
                 /\ UNCHANGED <<r_wait, r_fetch, r_result>>
    /\ UNCHANGED <<sys_vars, w_vars, r_args>>

\* lines 725-744: the same test again under the offset lock
safe_WaitFillData_Eos2 ==
    /\ Running /\ r_pc = "wf_eos2"
    /\ prebuffer_offset_lock = "none"
    /\ LET i_read == IF b_buffered_eos
                     THEN ClampAtEos(r_read, i_stream_offset, i_prebuffer_offset)
                     ELSE r_read
       IN IF i_read = 0 THEN WaitReturn(0)
          ELSE /\ r_read' = i_read
               /\ r_pc' = "wf_get"
               /\ UNCHANGED <<r_snap, r_rewind, r_fetch, r_result>>
    /\ UNCHANGED <<sys_vars, w_vars, r_args>>

\* the test of line 749 without the request's size
Buffered_IgnoresRead(stream_offset, i_read, prebuffer_offset) ==
    stream_offset <= prebuffer_offset

\* line 749
Buffered(stream_offset, i_read, prebuffer_offset) ==
    stream_offset + i_read <= prebuffer_offset

\* lines 748-750
safe_WaitFillData_Get ==
    /\ Running /\ r_pc = "wf_get"
    /\ prebuffer_offset_lock = "none"
    /\ IF Buffered(i_stream_offset, r_read, i_prebuffer_offset)
       THEN WaitReturn(r_read)
       ELSE /\ r_snap' = i_prebuffer_offset
            /\ r_pc' = "wf_loop"
            /\ UNCHANGED <<r_read, r_rewind, r_fetch, r_result>>
    /\ UNCHANGED <<sys_vars, w_vars, r_args>>

\* lines 755-758: the loop test, then the unlocked test of b_error, b_close
safe_WaitFillData_Loop ==
    /\ Running /\ r_pc = "wf_loop"
    /\ r_pc' = IF ~Buffered(i_stream_offset, r_read, r_snap) /\ ~(b_error \/ b_close)
               THEN "wf_loop_eos" ELSE "wf_end"
    /\ UNCHANGED <<sys_vars, w_vars, r_locals>>

\* lines 760-769: the unlocked test of b_buffered_eos inside the loop
safe_WaitFillData_LoopEos ==
    /\ Running /\ r_pc = "wf_loop_eos"
    /\ IF b_buffered_eos
       THEN /\ r_read' = Min(r_read, r_snap - i_stream_offset)
            /\ r_pc' = "wf_end"
       ELSE /\ r_pc' = "wf_wait"
            /\ UNCHANGED r_read
    /\ UNCHANGED <<sys_vars, w_vars, r_args, r_snap, r_rewind, r_fetch, r_result>>

\* lines 771-774: vlc_cond_wait( wait_fill )
safe_WaitFillData_Wait ==
    /\ Running /\ r_pc = "wf_wait"
    /\ wait_fill' = wait_fill \cup {"reader"}
    /\ r_pc' = "wf_waiting"
    /\ UNCHANGED <<r_frame, i_stream_offset, i_prebuffer_offset, b_buffered_eos,
                   i_temp_peek_capacity, prebuffer_offset_lock, wait_rewind, src_pos,
                   assert_outcome, w_pc, r_locals>>

\* line 778: woken, take the frontier again
safe_WaitFillData_Woken ==
    /\ Running /\ r_pc = "wf_woken"
    /\ prebuffer_offset_lock = "none"
    /\ r_snap' = i_prebuffer_offset
    /\ r_pc' = "wf_loop"
    /\ UNCHANGED <<sys_vars, w_vars, r_args, r_read, r_rewind, r_fetch, r_result>>

\* lines 785-788
safe_WaitFillData_End ==
    /\ Running /\ r_pc = "wf_end"
    /\ WaitReturn(IF b_error \/ b_close THEN -1 ELSE r_read)
    /\ UNCHANGED <<sys_vars, w_vars, r_args>>

\* ------------------------------------------------------- unsafe_fetchData
\* lines 696-699: the bytes taken from one block; unsigned arithmetic makes
\* a negative end - offset a huge count
StepRead(blk, offset, left) ==
    IF blk.i_data_end - offset >= 0 THEN Min(left, blk.i_data_end - offset) ELSE left

\* line 701: memcpy from p_buffer + offset
CopyOut(blk, offset, n) ==
    [k \in 1..n |-> IF offset + k - 1 < BUFFER_BLOCK_SIZE
                    THEN blk.p_buffer[offset + k - 1] ELSE Garbage]

\* lines 687, 692-694: the assertions on the block a read starts in
BlockAsserts(blk, offset) ==
    /\ blk.alloc
    /\ offset >= blk.i_data_begin
    /\ offset < blk.i_data_end
    /\ blk.i_data_end <= blk.i_block_size

\* Peek consuming what it fetched, as Read does
FetchDone_Consuming(data) ==
    /\ Return(Len(data), data)
    /\ i_stream_offset' = i_stream_offset + Len(data)

\* lines 817-821 (Read) and 871 (Peek): what the caller does with the count
FetchDone(data) ==
    /\ Return(Len(data), data)
    /\ i_stream_offset' = IF r_op = "Read" THEN i_stream_offset + Len(data)
                          ELSE i_stream_offset

\* lines 684-713: one turn of the loop, under the block's range_lock
unsafe_fetchData_Block ==
    /\ Running /\ r_pc = "fd_block"
    /\ LET blk == ItemAt(block_array, r_index)
           n == StepRead(blk, r_offset, r_left)
           data == r_data \o CopyOut(blk, r_offset, n)
       IN \/ Crash(blk)
          \/ blk.alloc /\ AssertFails(BlockAsserts(blk, r_offset))
          \/ /\ blk.alloc
             /\ AssertPasses(BlockAsserts(blk, r_offset))
             /\ IF r_left - n <= 0 \/ r_index + 1 >= r_count
                THEN FetchDone(data)
                ELSE /\ r_data' = data
                     /\ r_left' = r_left - n
                     /\ r_index' = r_index + 1
                     /\ r_offset' = 0
                     /\ UNCHANGED <<r_pc, r_ret, r_count, r_wait, i_stream_offset>>
             /\ UNCHANGED <<r_frame, i_prebuffer_offset, b_buffered_eos,
                            i_temp_peek_capacity, prebuffer_offset_lock, wait_fill,
                            wait_rewind, src_pos, w_pc, r_args>>

\* lines 674-683: the entry of unsafe_fetchData for i_read bytes
FetchStart(i_read) ==
    IF i_stream_offset \div BUFFER_BLOCK_SIZE < Len(block_array)
    THEN /\ r_index' = i_stream_offset \div BUFFER_BLOCK_SIZE
         /\ r_offset' = i_stream_offset % BUFFER_BLOCK_SIZE
         /\ r_count' = Len(block_array)
         /\ r_left' = i_read
         /\ r_pc' = "fd_block"
         /\ r_data' = <<>>
         /\ UNCHANGED <<r_ret, r_wait, i_stream_offset>>
    ELSE FetchDone(<<>>)

FetchStartAsserts(i_read) ==
    /\ i_stream_offset + i_read <= i_prebuffer_offset
    /\ i_stream_offset \div BUFFER_BLOCK_SIZE < Len(block_array)

\* ------------------------------------------------------------------- Read
\* r_hist once the call after the SET_POSITION is over or is not a Read
Forget(hist) == IF hist = "whole" THEN "used" ELSE hist

Read_Call ==
    /\ Running /\ r_pc = "idle" /\ c_pc = "c_idle"
    /\ \E n \in 0..MaxRead :
          /\ r_n' = n
          /\ r_read' = n
          /\ r_peeked' = IF r_peeked # <<>> /\ r_peeked[1] = n THEN r_peeked ELSE <<>>
    /\ r_op' = "Read"
    /\ r_start' = i_stream_offset
    /\ r_pc' = "wf_eos1"
    /\ UNCHANGED <<sys_vars, w_vars, r_pos, r_seeked, r_out, r_hist, r_snap, r_rewind,
                   r_fetch, r_result>>

\* lines 807-813: p_buffer is NULL, the bytes are skipped
Read_Discard ==
    /\ Running /\ r_pc = "rd_ready"
    /\ \/ AssertFails(i_stream_offset + r_read <= i_prebuffer_offset)
       \/ /\ AssertPasses(i_stream_offset + r_read <= i_prebuffer_offset)
          /\ i_stream_offset' = i_stream_offset + r_read
          /\ Return(r_read, <<>>)
          /\ UNCHANGED <<r_frame, i_prebuffer_offset, b_buffered_eos, i_temp_peek_capacity,
                         prebuffer_offset_lock, wait_fill, wait_rewind, src_pos, w_pc, r_args>>

\* lines 807-815: the entry of unsafe_fetchData
Read_Fetch ==
    /\ Running /\ r_pc = "rd_ready"
    /\ \/ AssertFails(FetchStartAsserts(r_read))
       \/ /\ AssertPasses(FetchStartAsserts(r_read))
          /\ FetchStart(r_read)
          /\ UNCHANGED <<r_frame, i_prebuffer_offset, b_buffered_eos, i_temp_peek_capacity,
                         prebuffer_offset_lock, wait_fill, wait_rewind, src_pos, w_pc, r_args>>

\* ------------------------------------------------------------------- Peek
Peek_Call ==
    /\ Running /\ r_pc = "idle" /\ c_pc = "c_idle"
    /\ \E n \in 0..MaxRead :
          /\ r_n' = n
          /\ r_read' = n
    /\ r_op' = "Peek"
    /\ r_start' = i_stream_offset
    /\ r_seeked' = FALSE
    /\ r_peeked' = <<>>
    /\ r_hist' = Forget(r_hist)
    /\ r_pc' = "wf_eos1"
    /\ UNCHANGED <<sys_vars, w_vars, r_pos, r_out, r_snap, r_rewind, r_fetch, r_result>>

\* lines 840-843: pp_peek is NULL
Peek_NoPointer ==
    /\ Running /\ r_pc = "pk_ready"
    /\ \/ AssertFails(i_stream_offset + r_read <= i_prebuffer_offset)
       \/ /\ AssertPasses(i_stream_offset + r_read <= i_prebuffer_offset)
          /\ Return(r_read, <<>>)
          /\ UNCHANGED <<r_frame, i_stream_offset, i_prebuffer_offset, b_buffered_eos,
                         i_temp_peek_capacity, prebuffer_offset_lock, wait_fill, wait_rewind,
                         src_pos, w_pc, r_args>>

\* line 847
InSameBlock(stream_offset, i_ready_data) ==
    (stream_offset % BUFFER_BLOCK_SIZE) + i_ready_data <= BUFFER_BLOCK_SIZE

\* line 863: the count Peek returns with a pointer into the block
PeekInBlockCount(i_peek, i_ready_data) == i_peek

\* lines 840-864: a pointer into the block
Peek_InBlock ==
    /\ Running /\ r_pc = "pk_ready"
    /\ InSameBlock(i_stream_offset, r_read)
    /\ LET index == i_stream_offset \div BUFFER_BLOCK_SIZE
           offset == i_stream_offset % BUFFER_BLOCK_SIZE
           blk == IF index < Len(block_array) THEN ItemAt(block_array, index)
                  ELSE NullBlock
           count == PeekInBlockCount(r_n, r_read)
           asserted == /\ i_stream_offset + r_read <= i_prebuffer_offset
                       /\ BlockAsserts(blk, offset)
       IN \/ Crash(blk)
          \/ blk.alloc /\ AssertFails(asserted)
          \/ /\ blk.alloc
             /\ AssertPasses(asserted)
             /\ Return(count, CopyOut(blk, offset, count))
             /\ UNCHANGED <<r_frame, i_stream_offset, i_prebuffer_offset, b_buffered_eos,
                            i_temp_peek_capacity, prebuffer_offset_lock, wait_fill,
                            wait_rewind, src_pos, w_pc, r_args>>

\* peek_Alloc: the capacity after a request for i_size bytes
peek_Alloc(capacity, i_size) == IF i_size <= capacity THEN capacity ELSE i_size

\* lines 866-871: the copy into the temporary buffer
Peek_Temp ==
    /\ Running /\ r_pc = "pk_ready"
    /\ ~InSameBlock(i_stream_offset, r_read)
    /\ \/ AssertFails(FetchStartAsserts(r_read))
       \/ /\ AssertPasses(FetchStartAsserts(r_read))
          /\ i_temp_peek_capacity' = peek_Alloc(i_temp_peek_capacity, r_read)
          /\ FetchStart(r_read)
          /\ UNCHANGED <<r_frame, i_prebuffer_offset, b_buffered_eos,
                         prebuffer_offset_lock, wait_fill, wait_rewind, src_pos, w_pc, r_args>>

\* lines 866-868: peek_Alloc has to malloc and malloc fails
Peek_AllocFail ==
    /\ Running /\ r_pc = "pk_ready"
    /\ ~InSameBlock(i_stream_offset, r_read)
    /\ r_read > i_temp_peek_capacity
    /\ \/ AssertFails(i_stream_offset + r_read <= i_prebuffer_offset)
       \/ /\ AssertPasses(i_stream_offset + r_read <= i_prebuffer_offset)
          /\ i_temp_peek_capacity' = 0
          /\ Return(-1, <<>>)
          /\ UNCHANGED <<r_frame, i_stream_offset, i_prebuffer_offset, b_buffered_eos,
                         prebuffer_offset_lock, wait_fill, wait_rewind, src_pos, w_pc, r_args>>

\* ------------------------------------------- Control( STREAM_SET_POSITION )
\* lines 899-907
\* a non-seekable source reported as a successful seek
NotSeekableResult_Success == VLC_SUCCESS

\* lines 902-903: what SET_POSITION returns when the source cannot seek
NotSeekableResult == VLC_EGENERIC

SetPositionCall(hist) ==
    /\ Running /\ r_pc = "idle" /\ c_pc = "c_idle"
    /\ \E pos \in 0..(StreamSize + 1) : r_pos' = pos
    /\ r_op' = "Seek"
    /\ r_start' = i_stream_offset
    /\ r_seeked' = FALSE
    /\ r_peeked' = <<>>
    /\ r_hist' = hist
    /\ IF ~b_can_seek THEN Return(NotSeekableResult, <<>>)
       ELSE /\ r_pc' = "sk_short"
            /\ UNCHANGED <<r_wait, r_fetch, r_result>>
    /\ UNCHANGED <<sys_vars, w_vars, r_n, r_out>>

Control_SetPosition_Call == SetPositionCall(r_hist)

\* buffered_eos is set and the blocks hold [0, size) without a gap
WholeStreamBuffered ==
    /\ b_buffered_eos
    /\ unsafe_FindRewindBufferedPosition(block_array, 0) >= StreamSize

\* the same call by a caller that keeps track of its SET_POSITION calls
Control_SetPosition_CallTracked ==
    SetPositionCall(IF r_hist = "fresh" /\ WholeStreamBuffered THEN "whole" ELSE "used")

\* line 913
IsShortSeek(i_seek_pos, prebuffer_offset) ==
    i_seek_pos > prebuffer_offset /\ i_seek_pos < prebuffer_offset + SHORT_SEEK_RANGE

\* lines 909-920: a short seek waits for the data instead of seeking
Control_SetPosition_Short ==
    /\ Running /\ r_pc = "sk_short"
    /\ prebuffer_offset_lock = "none"
    /\ IF IsShortSeek(r_pos, i_prebuffer_offset)
       THEN /\ r_read' = r_pos - i_stream_offset
            /\ r_pc' = "wf_eos1"
       ELSE /\ r_pc' = "sk_lock"
            /\ UNCHANGED r_read
    /\ UNCHANGED <<sys_vars, w_vars, r_args, r_snap, r_rewind, r_fetch, r_result>>

\* a seek that takes the frontier itself for unbuffered
SeekWithinBuffered_Strict(i_seek_pos, prebuffer_offset, rewind_pos) ==
    i_seek_pos < prebuffer_offset /\ i_seek_pos < rewind_pos

\* a seek that never finds its target buffered
SeekWithinBuffered_Never(i_seek_pos, prebuffer_offset, rewind_pos) == FALSE

\* lines 935-936
SeekWithinBuffered(i_seek_pos, prebuffer_offset, rewind_pos) ==
    i_seek_pos <= prebuffer_offset /\ i_seek_pos < rewind_pos

\* lines 929-944: under the offset lock, serve the seek from buffered data
\* or keep the lock and go on to the source
Control_SetPosition_Lock ==
    /\ Running /\ r_pc = "sk_lock"
    /\ prebuffer_offset_lock = "none"
    /\ LET rewind_pos == unsafe_FindRewindBufferedPosition(block_array, r_pos) IN
       IF SeekWithinBuffered(r_pos, i_prebuffer_offset, rewind_pos)
       THEN /\ i_stream_offset' = r_pos
            /\ r_ret' = VLC_SUCCESS
            /\ r_pc' = "sk_signal"
            /\ r_read' = 0
            /\ UNCHANGED <<prebuffer_offset_lock, r_rewind>>
       ELSE /\ prebuffer_offset_lock' = "reader"
            /\ r_rewind' = rewind_pos
            /\ r_pc' = "sk_source"
            /\ r_read' = 0
            /\ UNCHANGED <<i_stream_offset, r_ret>>
    /\ UNCHANGED <<r_frame, i_prebuffer_offset, b_buffered_eos, i_temp_peek_capacity,
                   wait_fill, wait_rewind, src_pos, assert_outcome, w_pc,
                   r_args, r_snap, r_fetch, r_data>>

\* the stream offset moved to the target whatever the source did
SeekStreamOffset_Always(i_seek_pos, i_rewind_offset, stream_offset) == i_seek_pos

\* lines 964-974: the stream offset after the source ended at i_rewind_offset
SeekStreamOffset(i_seek_pos, i_rewind_offset, stream_offset) ==
    IF i_seek_pos <= i_rewind_offset THEN i_seek_pos
    ELSE IF stream_offset > i_rewind_offset THEN i_rewind_offset
    ELSE stream_offset

\* lines 953, 964-974, 985: the value the seek returns
SeekResult(i_seek_pos, i_rewind_offset, stream_offset, i_seek_ret) ==
    IF i_seek_pos > i_rewind_offset /\ stream_offset > i_rewind_offset
    THEN VLC_EGENERIC ELSE i_seek_ret

\* lines 956-977: after stream_Seek returned i_seek_ret
Rewind(i_seek_ret) ==
    /\ b_buffered_eos' = FALSE
    /\ i_prebuffer_offset' = src_pos'
    /\ i_stream_offset' = SeekStreamOffset(r_pos, src_pos', i_stream_offset)
    /\ r_ret' = SeekResult(r_pos, src_pos', i_stream_offset, i_seek_ret)
    /\ prebuffer_offset_lock' = "none"
    /\ r_rewind' = 0
    /\ r_pc' = "sk_signal"

\* lines 945-977: stream_Seek succeeds
Control_SetPosition_Source ==
    /\ Running /\ r_pc = "sk_source"
    /\ source_lock = "none"
    /\ src_pos' = r_rewind
    /\ Rewind(VLC_SUCCESS)
    /\ UNCHANGED <<r_frame, i_temp_peek_capacity, wait_fill, wait_rewind, assert_outcome,
                   w_pc, r_args, r_read, r_snap, r_fetch, r_data>>

\* lines 945-977: stream_Seek fails and the source stays where it was
Control_SetPosition_SourceFail ==
    /\ Running /\ r_pc = "sk_source"
    /\ source_lock = "none"
    /\ src_pos' = src_pos
    /\ Rewind(VLC_EGENERIC)
    /\ UNCHANGED <<r_frame, i_temp_peek_capacity, wait_fill, wait_rewind, assert_outcome,
                   w_pc, r_args, r_read, r_snap, r_fetch, r_data>>

\* lines 979-985: wake the prebuffer thread
Control_SetPosition_Signal ==
    /\ Running /\ r_pc = "sk_signal"
    /\ SignalRewind
    /\ r_pc' = "ret"
    /\ UNCHANGED <<r_frame, i_stream_offset, i_prebuffer_offset, b_buffered_eos,
                   i_temp_peek_capacity, prebuffer_offset_lock, wait_fill, src_pos,
                   assert_outcome, r_locals>>

\* ------------------------------------------------- Control: the queries
\* a query answers at once: value v returned, out stored through the pointer
Answer(query, v, out) ==
    /\ Running /\ r_pc = "idle" /\ c_pc = "c_idle"
    /\ r_op' = query
    /\ r_start' = i_stream_offset
    /\ r_seeked' = FALSE
    /\ r_peeked' = <<>>
    /\ r_hist' = Forget(r_hist)
    /\ r_ret' = v
    /\ r_out' = out
    /\ r_pc' = "ret"
    /\ UNCHANGED <<sys_vars, w_vars, r_n, r_pos, r_wait, r_fetch, r_data>>

\* lines 887-892
Control_CanSeek == Answer("CAN_SEEK", VLC_SUCCESS, <<b_can_seek>>)

\* lines 893-898
Control_GetPosition == Answer("GET_POSITION", VLC_SUCCESS, <<i_stream_offset>>)

\* lines 987-992
Control_GetSize == Answer("GET_SIZE", VLC_SUCCESS, <<StreamSize>>)

\* lines 993-998: the frontier, read without the offset lock
Control_GetCachedSize == Answer("GET_CACHED_SIZE", VLC_SUCCESS, <<i_prebuffer_offset>>)

\* the queries the switch has no case for
OtherQueries == {"GET_PREBUFFER_FINISHED", "OTHER"}

\* a default case that reports success
DefaultResult_Success == VLC_SUCCESS

\* lines 999-1003: what the default case returns
DefaultResult == VLC_EGENERIC

\* lines 999-1003: any other query
Control_Default == \E q \in OtherQueries : Answer(q, DefaultResult, <<>>)

\* the call is over and the caller has the result; peeked is what the
\* caller keeps of it
ReturnToCaller(peeked) ==
    /\ Running /\ r_pc = "ret"
    /\ r_pc' = "idle"
    /\ r_seeked' = (r_op = "Seek" /\ r_ret = VLC_SUCCESS)
    /\ r_peeked' = peeked
    /\ r_hist' = IF r_op = "Seek" THEN r_hist ELSE Forget(r_hist)
    /\ r_out' = <<>>
    /\ r_op' = "none"
    /\ r_n' = 0
    /\ r_pos' = 0
    /\ r_start' = 0
    /\ r_data' = <<>>
    /\ r_ret' = 0
    /\ UNCHANGED <<sys_vars, w_vars, r_wait, r_fetch>>

Reader_Return == ReturnToCaller(<<>>)

\* the same, by a caller that keeps what a Peek returned
Reader_ReturnPeeked ==
    ReturnToCaller(IF r_op = "Peek" THEN <<r_n, r_ret, r_data>> ELSE <<>>)

\* the steps of the reader thread inside a call
ReaderSteps ==
    \/ Read_Call
    \/ Read_Discard
    \/ Read_Fetch
    \/ Peek_Call
    \/ Peek_NoPointer
    \/ Peek_InBlock
    \/ Peek_Temp
    \/ Peek_AllocFail
    \/ Control_SetPosition_Short
    \/ Control_SetPosition_Lock
    \/ Control_SetPosition_Source
    \/ Control_SetPosition_SourceFail
    \/ Control_SetPosition_Signal
    \/ Control_CanSeek
    \/ Control_GetPosition
    \/ Control_GetSize
    \/ Control_GetCachedSize
    \/ Control_Default
    \/ safe_WaitFillData_Eos1
    \/ safe_WaitFillData_Eos2
    \/ safe_WaitFillData_Get
    \/ safe_WaitFillData_Loop
    \/ safe_WaitFillData_LoopEos
    \/ safe_WaitFillData_Wait
    \/ safe_WaitFillData_Woken
    \/ safe_WaitFillData_End
    \/ unsafe_fetchData_Block

ReaderCall == ReaderSteps \/ Control_SetPosition_Call

Reader == ReaderCall \/ Reader_Return

\* vlc_cond_wait may return without a signal
SpuriousWakeup ==
    /\ Running
    /\ \/ /\ "reader" \in wait_fill
          /\ wait_fill' = wait_fill \ {"reader"}
          /\ r_pc' = "wf_woken"
          /\ UNCHANGED <<wait_rewind, w_pc>>
       \/ /\ "worker" \in wait_rewind
          /\ wait_rewind' = wait_rewind \ {"worker"}
          /\ w_pc' = "w_start"
          /\ UNCHANGED <<wait_fill, r_pc>>
    /\ UNCHANGED <<r_frame, i_stream_offset, i_prebuffer_offset, b_buffered_eos,
                   i_temp_peek_capacity, prebuffer_offset_lock, src_pos, assert_outcome,
                   r_locals>>

Next == PrebufferThread \/ Reader \/ SpuriousWakeup

Spec == Init /\ [][Next]_vars

\* the same program under a caller that keeps track: it compares a Peek with
\* the Read after it, and knows its first SET_POSITION from the later ones
NextPeeked ==
    \/ PrebufferThread
    \/ ReaderSteps
    \/ Control_SetPosition_CallTracked
    \/ Reader_ReturnPeeked
    \/ SpuriousWakeup

SpecPeeked == Init /\ [][NextPeeked]_vars

\* ------------------------------------------------------------------ Close
\* Close runs on a thread of its own, once: its caller makes no further
\* call, and a call it made earlier is over or is blocked waiting for data.
\* vlc_cancel is deferred: PrebufferThread acts on it in vlc_cond_wait, and
\* inside stream_Read if the source's read is a cancellation point.
close_frame == <<b_can_seek, i_stream_size, pf_installed, prebuffer_thread,
                 o_pc, o_ret, o_source, b_error, b_close, i_stream_offset,
                 i_prebuffer_offset, b_buffered_eos, prebuffer_offset_lock, wait_fill,
                 src_pos, assert_outcome, r_vars>>

\* lines 212-218: wake PrebufferThread
Close_Signal ==
    /\ Running /\ c_pc = "c_idle"
    /\ r_pc \in {"idle", "wf_waiting"}
    /\ SignalRewind
    /\ c_pc' = "c_cancel"
    /\ UNCHANGED <<close_frame, p_sys, block_array, i_temp_peek_capacity, source_lock,
                   w_locals>>

\* line 220: vlc_cancel
Close_Cancel ==
    /\ Running /\ c_pc = "c_cancel"
    /\ c_pc' = "c_join"
    /\ UNCHANGED <<close_frame, p_sys, block_array, i_temp_peek_capacity, source_lock,
                   wait_rewind, w_vars>>

\* a join that does not wait for the thread
Joined_NoWait == TRUE

\* line 221: vlc_join returns once PrebufferThread has terminated
Joined == w_pc \in {"w_done", "w_cancelled"}

\* line 221
Close_Join ==
    /\ Running /\ c_pc = "c_join"
    /\ Joined
    /\ c_pc' = "c_free"
    /\ UNCHANGED <<close_frame, p_sys, block_array, i_temp_peek_capacity, source_lock,
                   wait_rewind, w_vars>>

\* lines 224, 308-338: sys_Free frees the temporary buffer, the blocks, the
\* mutexes and condition variables, and the stream_sys_t
Close_Free ==
    /\ Running /\ c_pc = "c_free"
    /\ i_temp_peek_capacity' = 0
    /\ block_array' = <<>>
    /\ p_sys' = "freed"
    /\ c_pc' = "c_done"
    /\ UNCHANGED <<close_frame, source_lock, wait_rewind, w_vars>>

\* the cancellation is pending
CancelPending == c_pc = "c_join"

\* the thread is cancelled: its cleanup handlers release what it holds
Cancelled ==
    /\ w_pc' = "w_cancelled"
    /\ wait_rewind' = wait_rewind \ {"worker"}
    /\ source_lock' = "none"
    /\ w_prebuffer_offset' = 0
    /\ w_block_index' = 0
    /\ w_block_offset' = 0
    /\ w_read_ret' = 0
    /\ UNCHANGED <<close_frame, c_pc, p_sys, block_array, i_temp_peek_capacity>>

\* lines 429-432: vlc_cond_wait( wait_rewind ) is a cancellation point, on
\* entry and while the thread is blocked in it
PrebufferThread_CancelledInWait ==
    /\ Running /\ CancelPending
    /\ w_pc \in {"w_rewind_wait", "w_parked"}
    /\ Cancelled

\* lines 568-570: stream_Read may be a cancellation point
PrebufferThread_CancelledInRead ==
    /\ Running /\ CancelPending
    /\ w_pc = "w_read"
    /\ Cancelled

Close ==
    \/ Close_Signal
    \/ Close_Cancel
    \/ Close_Join
    \/ Close_Free
    \/ PrebufferThread_CancelledInWait
    \/ PrebufferThread_CancelledInRead

\* the program with its Close
NextClose == Next \/ Close

SpecClose == Init /\ [][NextClose]_vars

\* C24: once Close has joined PrebufferThread, the closing flag is true and no
\* Read or Peek is still blocked on the fill condition: Close woke it.
C24_CloseWakesReader ==
    c_pc \in {"c_free", "c_done"} => b_close /\ "reader" \notin wait_fill

\* PrebufferThread restarts its outer loop for ever: the source is not where
\* the frontier is (lines 565-577), the block it would fill is allocated, no
\* flag is set and no caller is left to seek the source
WorkerSpins ==
    /\ Running /\ r_pc = "idle"
    /\ ~b_error /\ ~b_close
    /\ i_prebuffer_offset < StreamSize
    /\ src_pos # i_prebuffer_offset
    /\ prebuffer_offset_lock = "none" /\ source_lock = "none"
    /\ ItemAt(GrowArray(block_array, i_prebuffer_offset \div BUFFER_BLOCK_SIZE),
              i_prebuffer_offset \div BUFFER_BLOCK_SIZE).alloc
    /\ \/ w_pc = "w_start"
       \/ w_pc \in {"w_prepare", "w_fill", "w_tell"} /\ w_prebuffer_offset = i_prebuffer_offset

\* C25: Close returns from every state of PrebufferThread: the join of line
\* 221 never waits on a thread that can no longer reach a cancellation point
\* or its exit.
C25_CloseReturns ==
    ~(c_pc = "c_join" /\ WorkerSpins)

\* once there, every step leaves Close in its join and the thread spinning
C25_SpinsForever ==
    [][(c_pc = "c_join" /\ WorkerSpins) => (c_pc' = "c_join" /\ WorkerSpins')]_vars

\* C26: a step that frees the stream_sys_t (with its mutexes and condition
\* variables) or a block is a step of Close after its join, taken when
\* PrebufferThread has terminated; no step of the thread frees a block.
C26_FreeAfterJoin ==
    [][(\/ p_sys' # p_sys
        \/ \E i \in 1..Len(block_array) :
              block_array[i].alloc /\ (i > Len(block_array') \/ ~block_array'[i].alloc))
       => (c_pc = "c_free" /\ w_pc \in {"w_done", "w_cancelled"} /\ w_pc' = w_pc)]_vars

C26_Witness ==
    /\ c_pc = "c_done" /\ p_sys = "freed"
    /\ w_pc = "w_cancelled"
    /\ i_prebuffer_offset > 0

\* ------------------------------------------------------------- the locks
\* Two mutexes are held from one step to the next and are variables:
\* prebuffer_offset_lock and source_lock.  The range_lock of a block,
\* wait_fill_lock and wait_rewind_lock are taken and released inside one
\* step.  LockTrace lists, in program order, what the step a thread is about
\* to take does with the mutexes, the condition variables and the source, and
\* where it reads or writes b_buffered_eos ("eos"), the block array's length
\* and slots ("array") and where it writes i_prebuffer_offset ("frontier"); the
\* release of a mutex that the step may keep is listed with the step that
\* always releases it.
\* a commit that takes the block's lock before the offset lock
CommitTrace_RangeFirst ==
    <<<<"lock", "range">>, <<"lock", "offset">>, <<"unlock", "offset">>, <<"unlock", "range">>>>

\* lines 594-619 (and 446-532): the offset lock, inside it the block's lock
CommitTrace ==
    <<<<"lock", "offset">>, <<"lock", "range">>, <<"unlock", "range">>, <<"unlock", "offset">>>>

\* a stream_Tell made under the offset lock
TellTrace_UnderOffset == <<<<"lock", "offset">>, <<"lock", "source">>, <<"io", "tell">>>>

\* lines 562-566: source_lock, stream_Tell
TellTrace == <<<<"lock", "source">>, <<"io", "tell">>>>

\* b_buffered_eos set without the offset lock
EosTrace_Unlocked == <<<<"write", "eos">>>>

\* lines 418-421
EosTrace == <<<<"lock", "offset">>, <<"write", "eos">>, <<"unlock", "offset">>>>

LockTrace(thread, pc) ==
    LET Locked == <<<<"lock", "offset">>, <<"unlock", "offset">>>>
        Served == <<<<"lock", "fill">>, <<"signal", "fill">>, <<"unlock", "fill">>>>
        Rewound == <<<<"lock", "rewind">>, <<"signal", "rewind">>, <<"unlock", "rewind">>>>
    IN
    CASE thread = "worker" ->
           CASE pc \in {"w_start", "w_fill"} -> Locked
             [] pc = "w_set_eos" -> EosTrace
             [] pc \in {"w_eos_signal", "w_signal"} -> Served
             [] pc = "w_exit" -> IF b_error THEN Served ELSE <<>>
             [] pc = "w_rewind_wait" ->
                  <<<<"lock", "rewind">>, <<"wait", "rewind">>, <<"unlock", "rewind">>>>
             [] pc = "w_prepare" ->
                  <<CommitTrace[1], <<"read", "array">>, <<"write", "array">>>> \o
                  SubSeq(CommitTrace, 2, 4)
             [] pc = "w_tell" -> TellTrace
             [] pc = "w_read" -> <<<<"io", "read">>, <<"unlock", "source">>>>
             [] pc = "w_commit" ->
                  SubSeq(CommitTrace, 1, 3) \o <<<<"write", "frontier">>, CommitTrace[4]>>
             [] OTHER -> <<>>
      [] thread = "reader" ->
           CASE pc \in {"wf_get", "wf_woken", "sk_short"} -> Locked
             [] pc \in {"wf_eos1", "wf_loop_eos"} -> <<<<"read", "eos">>>>
             [] pc = "wf_eos2" ->
                  <<<<"lock", "offset">>, <<"read", "eos">>, <<"unlock", "offset">>>>
             [] pc = "wf_wait" ->
                  <<<<"lock", "fill">>, <<"wait", "fill">>, <<"unlock", "fill">>>>
             [] pc = "fd_block" ->
                  <<<<"read", "array">>, <<"lock", "range">>, <<"unlock", "range">>>>
             [] pc = "sk_lock" -> <<<<"lock", "offset">>, <<"read", "array">>>>
             [] pc = "sk_source" ->
                  <<<<"lock", "source">>, <<"io", "seek">>, <<"io", "tell">>,
                    <<"unlock", "source">>, <<"write", "eos">>, <<"write", "frontier">>,
                    <<"unlock", "offset">>>>
             [] pc = "sk_signal" -> Rewound
             [] OTHER -> <<>>
      [] OTHER ->
           CASE pc = "c_idle" -> Rewound
             [] pc = "c_free" -> <<<<"read", "array">>, <<"write", "array">>>>
             [] OTHER -> <<>>

\* the step the thread is about to take
Steps(thread) ==
    LockTrace(thread, CASE thread = "reader" -> r_pc
                        [] thread = "worker" -> w_pc
                        [] OTHER -> c_pc)

\* the mutexes the thread holds before the k-th event of its step
HeldBefore(thread, k) ==
    LET ev == Steps(thread)
        last(l) == {i \in 1..(k - 1) : ev[i][2] = l /\ ev[i][1] \in {"lock", "unlock"} /\
                        \A j \in (i + 1)..(k - 1) :
                            ~(ev[j][2] = l /\ ev[j][1] \in {"lock", "unlock"})}
    IN {l \in {"offset", "source", "range", "fill", "rewind"} :
           IF last(l) = {}
           THEN \/ l = "offset" /\ prebuffer_offset_lock = thread
                \/ l = "source" /\ source_lock = thread
           ELSE \E i \in last(l) : ev[i][1] = "lock"}

\* the thread's step takes a mutex that is not free
BlockedOnMutex(thread) ==
    \E k \in 1..Len(Steps(thread)) :
        /\ Steps(thread)[k][1] = "lock"
        /\ \A j \in 1..(k - 1) : Steps(thread)[j][2] # Steps(thread)[k][2]
        /\ \/ Steps(thread)[k][2] = "offset" /\ prebuffer_offset_lock # "none"
           \/ Steps(thread)[k][2] = "source" /\ source_lock # "none"

\* C27: the lock order is never inverted: no thread takes the offset lock
\* while it holds source_lock or a range_lock, none takes source_lock while it
\* holds a range_lock, and a thread that holds wait_fill_lock or
\* wait_rewind_lock takes no other lock and does no source I/O.
C27_LockOrder ==
    \A thread \in {"reader", "worker", "close"} :
        \A k \in 1..Len(Steps(thread)) :
            LET op == Steps(thread)[k][1]
                what == Steps(thread)[k][2]
                held == HeldBefore(thread, k)
            IN /\ (op = "lock" /\ what = "offset") => held \cap {"source", "range"} = {}
               /\ (op = "lock" /\ what = "source") => "range" \notin held
               /\ op \in {"lock", "io"} => held \cap {"fill", "rewind"} = {}

\* the reader takes source_lock under the offset lock while PrebufferThread,
\* not yet cancelled, takes the offset lock and then a range_lock
C27_Witness ==
    /\ r_pc = "sk_source" /\ prebuffer_offset_lock = "reader" /\ source_lock = "none"
    /\ w_pc = "w_commit"
    /\ c_pc = "c_join"

\* C28: in no state is every live thread (the reader inside a call,
\* PrebufferThread, Close) blocked on a mutex.
C28_NoMutexDeadlock ==
    LET live == {thread \in {"reader", "worker", "close"} :
                    CASE thread = "reader" -> r_pc \notin {"idle", "ret"}
                      [] thread = "worker" -> w_pc \notin {"w_none", "w_done", "w_cancelled"}
                      [] OTHER -> c_pc \in {"c_cancel", "c_join", "c_free"}}
    IN live # {} => \E thread \in live : ~BlockedOnMutex(thread)

\* PrebufferThread waits for the offset lock to commit its read while the
\* reader's seek holds it and takes source_lock
C28_Witness ==
    /\ r_pc = "sk_source" /\ prebuffer_offset_lock = "reader"
    /\ w_pc = "w_commit" /\ BlockedOnMutex("worker")
    /\ ~BlockedOnMutex("reader")

\* C29: no thread executes a source operation (read, seek, tell) while it
\* holds the offset lock or a range_lock.
C29_NoSourceOpUnderLock ==
    [][\A thread \in {"reader", "worker"} :
          (\/ thread = "reader" /\ r_pc' # r_pc
           \/ thread = "worker" /\ w_pc' # w_pc)
          => \A k \in 1..Len(Steps(thread)) :
                Steps(thread)[k][1] = "io"
                => HeldBefore(thread, k) \cap {"offset", "range"} = {}]_vars

\* C29 as the code has it: no thread executes a source operation under a
\* range_lock and PrebufferThread executes none under the offset lock; the
\* reader's rewinding seek executes stream_Seek and stream_Tell under the
\* offset lock and source_lock.
C29_SourceOpLocks ==
    [][\A thread \in {"reader", "worker"} :
          (\/ thread = "reader" /\ r_pc' # r_pc
           \/ thread = "worker" /\ w_pc' # w_pc)
          => \A k \in 1..Len(Steps(thread)) :
                Steps(thread)[k][1] = "io"
                => HeldBefore(thread, k) =
                       IF thread = "worker" THEN {"source"} ELSE {"offset", "source"}]_vars

\* the reader has moved the source under the offset lock while
\* PrebufferThread was between its read and its commit
C29_Witness ==
    /\ r_pc = "sk_signal" /\ r_ret = VLC_SUCCESS
    /\ src_pos = r_pos /\ i_prebuffer_offset = r_pos /\ ~b_buffered_eos
    /\ w_pc = "w_commit" /\ w_prebuffer_offset # i_prebuffer_offset

\* C30: at most one source operation is in flight: every stream_Read,
\* stream_Seek and stream_Tell is executed under source_lock, the source moves
\* only in a step of the thread that holds or takes source_lock, and while
\* PrebufferThread's stream_Read is in flight it holds source_lock and the
\* source is where its snapshot of the frontier is.
C30_SourceSerialized ==
    [][/\ \A thread \in {"reader", "worker"} :
             (\/ thread = "reader" /\ r_pc' # r_pc
              \/ thread = "worker" /\ w_pc' # w_pc)
             => \A k \in 1..Len(Steps(thread)) :
                   Steps(thread)[k][1] = "io" => "source" \in HeldBefore(thread, k)
       /\ src_pos' # src_pos
             => \/ w_pc = "w_read" /\ w_pc' # w_pc /\ source_lock = "worker"
                \/ r_pc = "sk_source" /\ r_pc' # r_pc /\ source_lock = "none"
       /\ w_pc = "w_read" => (source_lock = "worker" /\ src_pos = w_prebuffer_offset)
       /\ w_pc' = "w_read" => (source_lock' = "worker" /\ src_pos' = w_prebuffer_offset')]_vars

\* the reader's seek waits for source_lock while a stream_Read is in flight
C30_Witness ==
    /\ w_pc = "w_read" /\ source_lock = "worker" /\ src_pos = w_prebuffer_offset
    /\ r_pc = "sk_source" /\ r_rewind # src_pos
    /\ i_prebuffer_offset > 0

\* C31: every read and write of b_buffered_eos and of the block array's
\* shape, and every write of i_prebuffer_offset, is made by a thread that
\* holds the offset lock.
C31_GuardedByOffsetLock ==
    [][\A thread \in {"reader", "worker"} :
          (\/ thread = "reader" /\ r_pc' # r_pc
           \/ thread = "worker" /\ w_pc' # w_pc)
          => \A k \in 1..Len(Steps(thread)) :
                (\/ Steps(thread)[k][2] \in {"eos", "array"}
                 \/ Steps(thread)[k] = <<"write", "frontier">>)
                => "offset" \in HeldBefore(thread, k)]_vars

\* PrebufferThread waits on wait_rewind with the frontier below the size and
\* no call in progress that would signal it
WorkerParkedBehind ==
    /\ Running /\ r_pc = "idle"
    /\ ~b_error
    /\ w_pc = "w_parked"
    /\ i_prebuffer_offset < StreamSize

\* C32: while the frontier is below the size PrebufferThread advances it: once
\* the reader's calls are over it is neither parked on wait_rewind with the
\* frontier below the size nor restarting its outer loop for ever.
C32_WorkerProgress ==
    ~(WorkerParkedBehind \/ WorkerSpins)

\* once parked behind, only a new call of the reader or a wake-up without a
\* signal changes anything
C32_ParkedForever ==
    [][(WorkerParkedBehind /\ r_pc' = "idle" /\ "worker" \in wait_rewind')
          => WorkerParkedBehind']_vars

\* C33: when no SET_POSITION is in progress, source_lock is free and
\* PrebufferThread has no read left to commit or discard, the source is at the
\* frontier, unless b_error is set.
C33_SourceAtFrontier ==
    (/\ ~(r_op = "Seek" /\ r_pc # "idle")
     /\ source_lock = "none"
     /\ w_pc # "w_commit"
     /\ ~b_error)
    => src_pos = i_prebuffer_offset

\* C34: the commit after a read of PrebufferThread either finds the frontier
\* where its snapshot was and advances the frontier and the block's end by
\* the bytes read, or finds it moved and changes neither.
C34_CommitOrDiscard ==
    [][(w_pc = "w_commit" /\ w_pc' # "w_commit")
          => IF w_prebuffer_offset = i_prebuffer_offset
             THEN /\ i_prebuffer_offset' = i_prebuffer_offset + w_read_ret
                  /\ block_array' = [block_array EXCEPT ![w_block_index + 1].i_data_end =
                                        @ + w_read_ret]
             ELSE /\ i_prebuffer_offset' = i_prebuffer_offset
                  /\ block_array' = block_array]_vars

\* C35: after the rewinding seek's stream_Seek and stream_Tell,
\* b_buffered_eos is false and the frontier is where the source is; a target
\* not beyond it becomes the stream offset and the call succeeds whatever
\* stream_Seek returned; a target beyond it, with the old stream offset
\* beyond it too, moves the stream offset there and the call fails; the call
\* never succeeds with a stream offset other than the target.
C35_RewindResult ==
    [][(r_pc = "sk_source" /\ r_pc' = "sk_signal")
          => /\ ~b_buffered_eos'
             /\ i_prebuffer_offset' = src_pos'
             /\ r_pos <= src_pos'
                  => (i_stream_offset' = r_pos /\ r_ret' = VLC_SUCCESS)
             /\ (r_pos > src_pos' /\ i_stream_offset > src_pos')
                  => (i_stream_offset' = src_pos' /\ r_ret' # VLC_SUCCESS)
             /\ r_ret' = VLC_SUCCESS => i_stream_offset' = r_pos]_vars

\* C36: a SET_POSITION whose target, under the offset lock, is not beyond the
\* frontier and lies before the end of the contiguous data buffered from it,
\* moves the stream offset to the target and returns success; it leaves the
\* source, the frontier, b_buffered_eos and the blocks alone.
C36_SeekWithinBuffered ==
    [][/\ (/\ r_pc = "sk_lock" /\ r_pc' # "sk_lock"
           /\ r_pos <= i_prebuffer_offset
           /\ r_pos < unsafe_FindRewindBufferedPosition(block_array, r_pos))
          => /\ i_stream_offset' = r_pos
             /\ r_ret' = VLC_SUCCESS
             /\ r_pc' = "sk_signal"
             /\ UNCHANGED <<src_pos, source_lock, i_prebuffer_offset, b_buffered_eos,
                            block_array>>
       /\ (r_pc = "sk_signal" /\ r_pc' # "sk_signal")
          => /\ r_pc' = "ret"
             /\ UNCHANGED <<r_ret, i_stream_offset, src_pos, source_lock,
                            i_prebuffer_offset, b_buffered_eos, block_array>>]_vars

\* a seek back to the start of a stream buffered to its end has been served
\* from the blocks, PrebufferThread staying parked
C36_Witness ==
    /\ r_pc = "sk_signal" /\ r_op = "Seek" /\ r_ret = VLC_SUCCESS
    /\ i_stream_offset = r_pos /\ r_pos < r_start
    /\ b_buffered_eos /\ src_pos = StreamSize /\ i_prebuffer_offset = StreamSize
    /\ w_pc = "w_parked"

\* C37: b_error, once set, stays set; PrebufferThread, which set it, is on its
\* exit path and reads the source, changes a block or moves the frontier no
\* more (only the reader's rewinding seek still does); and a Read or Peek that
\* returns with b_error set, having asked for bytes beyond the frontier,
\* returns -1.
C37_ErrorLatched ==
    [][/\ b_error
          => /\ b_error'
             /\ w_pc \in {"w_exit", "w_done"} /\ w_pc' \in {"w_exit", "w_done"}
             /\ (src_pos' # src_pos \/ block_array' # block_array \/
                 i_prebuffer_offset' # i_prebuffer_offset) => r_pc = "sk_source"
       /\ (/\ b_error' /\ r_pc' = "ret" /\ r_op' \in {"Read", "Peek"}
           /\ r_start' + r_n' > i_prebuffer_offset')
          => r_ret' = 0 - 1]_vars

C39_StreamOffsetInRange ==
    0 <= i_stream_offset /\ i_stream_offset <= StreamSize

\* C40: when PrebufferThread reconciles a block that already holds the
\* frontier's offset, begin <= offset <= end, it leaves the block as it is.
C40_ReconcileKeeps ==
    [][LET index == w_prebuffer_offset \div BUFFER_BLOCK_SIZE
           offset == w_prebuffer_offset % BUFFER_BLOCK_SIZE
       IN (/\ w_pc = "w_prepare" /\ w_pc' = "w_fill"
           /\ index < Len(block_array)
           /\ ItemAt(block_array, index).alloc
           /\ ItemAt(block_array, index).i_data_begin <= offset
           /\ offset <= ItemAt(block_array, index).i_data_end)
          => ItemAt(block_array', index) = ItemAt(block_array, index)]_vars

\* Open alone, from every answer the source and the system can give it
SpecOpen == InitOpen /\ [][Open]_vars
\* ================================================================ claims
\* no call of the reader is in progress
ReaderIdle == r_pc \in {"idle", "ret"}

\* position p lies in an allocated block whose range covers it
Covered(p) ==
    /\ p \div BUFFER_BLOCK_SIZE < Len(block_array)
    /\ LET blk == ItemAt(block_array, p \div BUFFER_BLOCK_SIZE) IN
       /\ blk.alloc
       /\ blk.i_data_begin <= p % BUFFER_BLOCK_SIZE
       /\ p % BUFFER_BLOCK_SIZE < blk.i_data_end

\* a Read that copied bytes has just returned
ReadReturned == r_pc = "ret" /\ r_op = "Read"

\* C1: every Read that delivers bytes delivers the source's bytes from the
\* stream offset it started at
C1_ReadDeliversSource ==
    (ReadReturned /\ Len(r_data) > 0) => r_data = SourceRange(r_start, Len(r_data))

\* C2: while no Read/Peek/Seek is in progress, every position in
\* [stream_offset, prebuffer_offset) lies inside the range of an allocated block
C2_FrontierCovered ==
    ReaderIdle => \A p \in i_stream_offset..(i_prebuffer_offset - 1) : Covered(p)

\* C3: every byte inside a block's [begin, end) is the source byte of its
\* file position
C3_BlockHoldsSource ==
    \A i \in 1..Len(block_array) :
        LET blk == block_array[i] IN
        blk.alloc =>
            \A o \in blk.i_data_begin..(blk.i_data_end - 1) :
                o < BUFFER_BLOCK_SIZE
                /\ blk.p_buffer[o] = SourceByte((i - 1) * BUFFER_BLOCK_SIZE + o)

\* C4: a SET_POSITION q with q <= size either succeeds with stream_offset = q,
\* and the next Read then delivers the source's bytes from q, cut short only
\* by the end of the stream, or fails with stream_offset <= prebuffer_offset
C4_SeekContract ==
    /\ (r_pc = "ret" /\ r_op = "Seek" /\ r_pos <= StreamSize) =>
          \/ r_ret = VLC_SUCCESS /\ i_stream_offset = r_pos
          \/ r_ret # VLC_SUCCESS /\ i_stream_offset <= i_prebuffer_offset
    /\ (ReadReturned /\ r_seeked /\ r_start <= StreamSize /\ ~b_error) =>
          /\ r_ret = Min(r_n, StreamSize - r_start)
          /\ r_data \in {<<>>, SourceRange(r_start, r_ret)}

\* C5: a Read or Peek that waits returns eventually.  Stated as the state
\* that would block it for ever: the reader is never waiting on the fill
\* condition, unsignalled, with the prebuffer thread parked on the rewind
\* condition (which only the reader's own seek signals), while the frontier
\* already covers its request or buffered_eos is already set
C5_NoLostWakeup ==
    ~ /\ r_pc = "wf_waiting" /\ "reader" \in wait_fill
      /\ r_op \in {"Read", "Peek"}
      /\ w_pc = "w_parked" /\ "worker" \in wait_rewind
      /\ ~b_error
      /\ Buffered(i_stream_offset, r_read, i_prebuffer_offset) \/ b_buffered_eos

\* C6: a Read or Peek is never left waiting on the fill condition,
\* unsignalled, after the prebuffer thread has set error and exited
C6_ErrorWakesReader ==
    ~ /\ r_pc = "wf_waiting" /\ "reader" \in wait_fill
      /\ r_op \in {"Read", "Peek"}
      /\ b_error
      /\ w_pc = "w_done"

\* C7: without error, a Read(n) with n > 0 from stream offset s returns
\* exactly min(n, size - s)
C7_ReadCount ==
    (ReadReturned /\ r_n > 0 /\ r_start <= StreamSize /\ ~b_error /\ ~b_close) =>
        r_ret = Min(r_n, StreamSize - r_start)

\* C8: no step of the prebuffer thread lowers prebuffer_offset; the only step
\* that lowers it is the rewind branch of SET_POSITION on the reader thread
C8_FrontierMonotone ==
    [][/\ PrebufferThread => i_prebuffer_offset' >= i_prebuffer_offset
       /\ i_prebuffer_offset' < i_prebuffer_offset =>
             r_pc = "sk_source" /\ r_pc' = "sk_signal"]_vars

\* the prebuffer thread holds a read it made from a frontier that a rewinding
\* seek has since lowered
C8_Witness ==
    /\ w_pc = "w_commit"
    /\ r_pc = "sk_signal"
    /\ i_prebuffer_offset < w_prebuffer_offset

\* C9: buffered_eos implies prebuffer_offset >= size
C9_EosImpliesEnd ==
    b_buffered_eos => i_prebuffer_offset >= StreamSize

\* C10: whenever the offset lock is free, buffered_eos is true exactly when
\* prebuffer_offset >= size
C10_EosIffEnd ==
    prebuffer_offset_lock = "none" =>
        (b_buffered_eos <=> i_prebuffer_offset >= StreamSize)

C12_OffsetWithinFrontier ==
    /\ i_stream_offset <= i_prebuffer_offset
    /\ (r_pc = "ret" /\ r_op = "GET_CACHED_SIZE") => r_out[1] >= i_stream_offset

\* GET_CACHED_SIZE answers with exactly the position the reader has consumed
\* up to
C12_Witness ==
    /\ r_pc = "ret" /\ r_op = "GET_CACHED_SIZE"
    /\ i_stream_offset > 0
    /\ r_out = <<i_stream_offset>>

\* C13: a SET_POSITION to the current stream_offset changes nothing: no
\* step of the call changes stream_offset, prebuffer_offset, buffered_eos or
\* a block, none goes to the source, and the call returns success
C13_SeekToCurrentIsNoOp ==
    [][(ReaderCall /\ r_op = "Seek" /\ r_pos = r_start) =>
          /\ UNCHANGED <<i_stream_offset, i_prebuffer_offset, b_buffered_eos, block_array>>
          /\ r_pc' # "sk_source"
          /\ r_pc' = "ret" => r_ret' = VLC_SUCCESS]_vars

\* C14: a Read(n) that directly follows a Peek(n) returns the count the Peek
\* returned and, where both delivered bytes, the same bytes (with fewer than
\* n bytes left before the end, both report the bytes actually available)
C14_PeekThenRead ==
    (ReadReturned /\ r_peeked # <<>>) =>
        /\ r_ret = r_peeked[2]
        /\ (r_data # <<>> /\ r_peeked[3] # <<>>) => r_data = r_peeked[3]

\* the (begin, end) range of every block of the array
BlockRanges ==
    [i \in 1..Len(block_array) |->
        <<block_array[i].alloc, block_array[i].i_data_begin, block_array[i].i_data_end>>]

\* C15: no step of a Peek, on the same-block path or through the temporary
\* buffer, changes stream_offset, prebuffer_offset, buffered_eos or the
\* range of a block
C15_PeekChangesNothing ==
    [][(ReaderCall /\ r_op' = "Peek") =>
          UNCHANGED <<i_stream_offset, i_prebuffer_offset, b_buffered_eos, BlockRanges>>]_vars

\* a Peek has returned two bytes that it copied from two blocks
C15_Witness ==
    /\ r_pc = "ret" /\ r_op = "Peek"
    /\ r_ret = 2 /\ Len(r_data) = 2
    /\ i_stream_offset % BUFFER_BLOCK_SIZE = 1
    /\ i_temp_peek_capacity = 2

\* C16: a Read of 0 bytes never waits and never goes on to fetch: it is at
\* one of the two tests of buffered_eos or has returned; it leaves
\* stream_offset where it was and returns 0
C16_ReadZero ==
    (r_op = "Read" /\ r_n = 0) =>
        /\ r_pc \in {"wf_eos1", "wf_eos2", "ret"}
        /\ "reader" \notin wait_fill
        /\ i_stream_offset = r_start
        /\ r_pc = "ret" => r_ret = 0

\* a Read of 0 bytes has returned after the prebuffer thread latched an error
C16_Witness ==
    /\ r_pc = "ret" /\ r_op = "Read" /\ r_n = 0
    /\ r_ret = 0
    /\ b_error

\* C17: the Read of k > 0 bytes that follows a successful SET_POSITION to the
\* size of the stream returns 0 (no bytes, no error), and it returns: it is
\* never left waiting on the fill condition, unsignalled, with the prebuffer
\* thread parked on the rewind condition that only a seek signals
C17_ReadAtEnd ==
    /\ (ReadReturned /\ r_seeked /\ r_start = StreamSize /\ r_n > 0 /\ ~b_error) =>
          r_ret = 0
    /\ ~ /\ r_op = "Read" /\ r_seeked /\ r_start = StreamSize
         /\ r_pc = "wf_waiting" /\ "reader" \in wait_fill
         /\ w_pc = "w_parked" /\ "worker" \in wait_rewind
         /\ ~b_error

\* C18: a SET_POSITION that took the short-seek path (its target lay less
\* than the window past prebuffer_offset, and its wait returned a positive
\* count, kept in r_read) never goes on to seek the source
C18_ShortSeekNoSourceSeek ==
    [][(r_op = "Seek" /\ r_pc = "sk_lock" /\ r_read > 0) => r_pc' # "sk_source"]_vars

\* C19 as stated: with the whole stream buffered before any seek, a
\* SET_POSITION 0 followed by a Read(k) delivers the source's bytes [0, k),
\* and buffered_eos is false afterwards
C19_RewindClearsEos ==
    (ReadReturned /\ r_hist = "whole" /\ r_seeked /\ r_start = 0) =>
        /\ r_ret = Min(r_n, StreamSize)
        /\ r_data \in {<<>>, SourceRange(0, r_ret)}
        /\ ~b_buffered_eos

\* C19, amended: with the whole stream buffered before any seek, a
\* SET_POSITION 0 on a seekable source succeeds with stream_offset = 0 and
\* leaves buffered_eos set; the Read(k) after it delivers the source's bytes
\* [0, k), and buffered_eos is still true afterwards
C19_RewindToStart ==
    /\ (r_pc = "ret" /\ r_op = "Seek" /\ r_hist = "whole" /\ r_pos = 0 /\ b_can_seek) =>
          /\ r_ret = VLC_SUCCESS
          /\ i_stream_offset = 0
          /\ b_buffered_eos
    /\ (ReadReturned /\ r_hist = "whole" /\ r_seeked /\ r_start = 0) =>
          /\ r_ret = Min(r_n, StreamSize)
          /\ r_data \in {<<>>, SourceRange(0, r_ret)}
          /\ b_buffered_eos

\* the Read after the first SET_POSITION, made with the whole stream
\* buffered, has delivered the first MaxRead bytes
C19_Witness ==
    /\ ReadReturned /\ r_hist = "whole" /\ r_seeked /\ r_start = 0
    /\ r_ret = MaxRead
    /\ r_data = SourceRange(0, MaxRead)
    /\ b_buffered_eos

C21_PrebufferFinished ==
    (r_pc = "ret" /\ r_op = "GET_PREBUFFER_FINISHED") =>
        /\ r_ret = VLC_SUCCESS
        /\ r_out \in {<<TRUE>>, <<FALSE>>}

C23_OpenRejects ==
    (o_pc = "o_ret" /\ (o_source.layered \/ ~o_source.enabled \/ o_source.size <= 0)) =>
        /\ o_ret = VLC_EGENERIC
        /\ ~prebuffer_thread
        /\ p_sys = "NULL" /\ ~pf_installed

====
